---- MODULE Spec2Model ----
(***************************************************************************)
(* Model of app/scripts/renderer-process/webviews/pushbullet-webview.js:   *)
(* the webview preload script that polls for the Pushbullet page client    *)
(* (window.pb), wraps three of its collections in Proxies, listens to its  *)
(* websocket and relays 'online' / 'login' events over ipcRenderer.        *)
(*                                                                         *)
(* The script is single threaded: every timer tick, event listener and     *)
(* Proxy trap runs to completion, so each is one action.  The page client  *)
(* and the browser are the environment: their steps are the Page... and    *)
(* Browser... actions.                                                     *)
(***************************************************************************)
EXTENDS Integers, Sequences, FiniteSets, TLC

(***************************************************************************)
(* Bounds of the model.                                                    *)
(***************************************************************************)
\* how often the login tick body may fail partway (it is retried every tick)
MaxLoginThrows == 1
\* connectivity transitions the browser goes through
MaxNetFlips == 2
\* assignments the page makes to pb.error
MaxErrorSets == 1
\* assignments the page makes to pb.api.pushes.objs and pb.api.texts.objs
MaxAssigns == 2
\* 'did-navigate-in-page' messages the host sends
MaxNavigations == 2
\* the latest creation time of an item; timestamps run from 1
MaxCreated == 2

VARIABLES
    \* ---- the browser and the configuration store
    loaded,        \* window 'load' has fired
    onLine,        \* navigator.onLine
    netFlips,      \* connectivity transitions so far
    lastTs,        \* configuration: pushbulletLastNotificationTimestamp
    \* ---- the page client, window.pb
    windowPb,      \* window.pb is defined
    active,        \* pb.account && pb.account.active
    pbApi,         \* the members of pb.api that are populated
    pbErrorDef,    \* pb.error is defined
    pbSocket,      \* pb.ws && pb.ws.socket is defined
    \* ---- the script's own state
    initPoll,      \* init's interval: "none", "undef" (pb captured undefined), "run", "done"
    loginPoll,     \* loginPushbulletUser's interval: "none", "run", "done"
    pollers,       \* running intervals of each register.../add... function
    layers,        \* Proxy layers around pb.error, pb.api.pushes.objs, pb.api.texts.objs
    listeners,     \* 'message' listeners registered on pb.ws.socket
    loginRuns,     \* times the login tick body was entered
    setupDone,     \* pb.api.account.preferences.setup_done was set by this script
    badge,         \* arguments of the pbPush.updateBadge calls
    \* ---- the relay channels
    sendLog,       \* ipcRenderer.send calls, in order
    hostLog,       \* ipcRenderer.sendToHost calls, in order
    byLog,         \* which handler made each relay call (parallel to sendLog)
    \* ---- pb.error
    errorObj,      \* the target object behind pb.error: property -> value
    errorSets,     \* assignments to pb.error so far
    \* ---- pb.api.pushes, pb.api.texts, pb.api.devices
    pushesObjs,    \* the target object behind pb.api.pushes.objs: key -> value
    pushesAll,     \* pb.api.pushes.all, the page client's own list of pushes
    textsObjs,     \* the target object behind pb.api.texts.objs: key -> value
    textsAll,      \* pb.api.texts.all
    devices,       \* pb.api.devices.objs is populated
    assigns,       \* assignments to the two collections so far
    lastSet,       \* the last assignment that went through a set trap
    enqueued,      \* pbPush.enqueuePushes calls of the set traps, per collection and iden
    \* ---- pb.ws.socket and pb.e2e
    e2eEnabled,    \* pb.e2e.enabled
    lastMessage,   \* the last 'message' event of pb.ws.socket
    wsCalls,       \* what the listeners did on it
    \* ---- the document
    dom,           \* the elements the two inject functions select: element -> state
    navigations    \* 'did-navigate-in-page' messages handled so far

browser == <<loaded, onLine, netFlips, lastTs>>
page == <<windowPb, active, pbApi, pbErrorDef, pbSocket>>
script == <<initPoll, loginPoll, pollers, layers, listeners, loginRuns, setupDone, badge>>
relay == <<sendLog, hostLog, byLog>>
errorData == <<errorObj, errorSets>>
items == <<pushesObjs, pushesAll, textsObjs, textsAll, devices, assigns, enqueued>>

socket == <<e2eEnabled, lastMessage, wsCalls>>
ui == <<dom, navigations>>

vars == <<browser, page, script, relay, errorData, items, lastSet, socket, ui>>

ApiParts == {"pushes", "texts", "account"}
PollerNames == {"error", "pushes", "texts", "ws", "ui"}
ProxyNames == {"error", "pushes", "texts"}
Colls == {"pushes", "texts"}
Idens == {"a", "b"}
\* no value: a property that is absent, a variable that is undefined
Absent == "<absent>"
\* lastSet before any assignment went through a trap
NoSet == [coll |-> Absent, key |-> Absent, value |-> Absent, threw |-> FALSE]

(***************************************************************************)
(* Values the page assigns into pb.api.pushes.objs and pb.api.texts.objs.  *)
(* A field that is Absent stands for a property the object does not have.  *)
(***************************************************************************)
\* the value null (or undefined)
Null == [null |-> TRUE]
\* an empty slot of a target object
NoValue == [absent |-> TRUE]

Directions == {Absent, "incoming", "outgoing"}
\* device idens: "desk" is this application's device, "phone" another one
Targets == {Absent, "desk", "phone"}

\* pb.api.devices.objs[iden].model
DeviceModel(iden) ==
    CASE iden = "desk" -> "pb-for-desktop"
      [] iden = "phone" -> "Pixel"
      [] OTHER -> Absent

\* a push: {iden, direction, target_device_iden, created}
Pushes(createds) ==
    [iden : Idens, direction : Directions, target : Targets, created : createds]

\* a text: {iden, data: {target_device_iden}, created}; hasData = FALSE when it
\* has no data property
Texts(createds) ==
    {t \in [iden : Idens, hasData : BOOLEAN, target : Targets, created : createds] :
        ~t.hasData => t.target = Absent}

(***************************************************************************)
(* Values the page assigns to properties of pb.error.                      *)
(***************************************************************************)
\* "#404" stands for the number 404, a value that is no string
ErrorProps == {"title", "message"}
ErrorValues == {"Network error", "Failed", "#404"}

\* _.isString(value)
isString(value) == value \in {"Network error", "Failed"}

\* value.includes('Network')
includesNetwork(value) == value = "Network error"

(***************************************************************************)
(* The two relay channels.  Every relay in the script is the pair          *)
(* ipcRenderer.send(ev, arg); ipcRenderer.sendToHost(ev, arg).             *)
(***************************************************************************)
Repeat(x, n) == [i \in 1..n |-> x]

ipcSend(log, ev, arg, n) == log \o Repeat(<<ev, arg>>, n)

ipcSendToHost(log, ev, arg, n) == log \o Repeat(<<ev, arg>>, n)

\* n times the pair of calls, made by handler `by`
Relay(ev, arg, by, n) ==
    /\ sendLog' = ipcSend(sendLog, ev, arg, n)
    /\ hostLog' = ipcSendToHost(hostLog, ev, arg, n)
    /\ byLog' = byLog \o Repeat(by, n)

(***************************************************************************)
(* Environment: the page and the browser.                                  *)
(***************************************************************************)
\* the page script defines window.pb
PageDefinesPb ==
    /\ ~windowPb
    /\ windowPb' = TRUE
    /\ UNCHANGED <<active, pbApi, pbErrorDef, pbSocket>>
    /\ UNCHANGED <<browser, script, relay, errorData, items, lastSet, socket, ui>>

\* the user signs in or out: pb.account.active changes
PageAccount ==
    /\ windowPb
    /\ active' = ~active
    /\ UNCHANGED <<windowPb, pbApi, pbErrorDef, pbSocket>>
    /\ UNCHANGED <<browser, script, relay, errorData, items, lastSet, socket, ui>>

\* the page client populates members of pb.api
PageLoadsApiIn(steps) ==
    /\ windowPb
    /\ \E parts \in steps : ~(parts \subseteq pbApi) /\ pbApi' = pbApi \cup parts
    /\ UNCHANGED <<windowPb, active, pbErrorDef, pbSocket>>
    /\ UNCHANGED <<browser, script, relay, errorData, items, lastSet, socket, ui>>

\* the stores pb.api.pushes and pb.api.texts come together, pb.api.account on its own
PageLoadsApi == PageLoadsApiIn({{"pushes", "texts"}, {"account"}})

\* the stores alone
PageLoadsStores == PageLoadsApiIn({{"pushes", "texts"}})

\* one member at a time
PageLoadsApiPart == PageLoadsApiIn({{part} : part \in ApiParts})

\* the page client creates pb.error
PageDefinesError ==
    /\ windowPb /\ ~pbErrorDef
    /\ pbErrorDef' = TRUE
    /\ UNCHANGED <<windowPb, active, pbApi, pbSocket>>
    /\ UNCHANGED <<browser, script, relay, errorData, items, lastSet, socket, ui>>

\* the page client opens pb.ws.socket
PageOpensSocket ==
    /\ windowPb /\ ~pbSocket
    /\ pbSocket' = TRUE
    /\ UNCHANGED <<windowPb, active, pbApi, pbErrorDef>>
    /\ UNCHANGED <<browser, script, relay, errorData, items, lastSet, socket, ui>>

(***************************************************************************)
(* window listeners (registered when the preload script runs).             *)
(***************************************************************************)
\* the 'load' listener starting loginPushbulletUser's interval along with init's
loadStartsLogin ==
    /\ ~loaded
    /\ loaded' = TRUE
    /\ initPoll' = IF windowPb THEN "run" ELSE "undef"
    /\ loginPoll' = IF windowPb THEN "run" ELSE loginPoll
    /\ UNCHANGED <<onLine, netFlips, lastTs>>
    /\ UNCHANGED <<pollers, layers, listeners, loginRuns, setupDone, badge>>
    /\ UNCHANGED <<page, relay, errorData, items, lastSet, socket, ui>>

\* window 'load': init() captures window.pb and starts its interval
load ==
    /\ ~loaded
    /\ loaded' = TRUE
    /\ initPoll' = IF windowPb THEN "run" ELSE "undef"
    /\ UNCHANGED <<onLine, netFlips, lastTs>>
    /\ UNCHANGED <<loginPoll, pollers, layers, listeners, loginRuns, setupDone, badge>>
    /\ UNCHANGED <<page, relay, errorData, items, lastSet, socket, ui>>

\* offlineListener relaying the payload of the online listener
offlineListenerSendsTrue ==
    /\ onLine /\ netFlips < MaxNetFlips
    /\ onLine' = FALSE
    /\ netFlips' = netFlips + 1
    /\ Relay("online", TRUE, "offline", 1)
    /\ UNCHANGED <<loaded, lastTs>>
    /\ UNCHANGED <<page, script, errorData, items, lastSet, socket, ui>>

\* the browser goes offline and fires window 'offline'
offlineListener ==
    /\ onLine /\ netFlips < MaxNetFlips
    /\ onLine' = FALSE
    /\ netFlips' = netFlips + 1
    /\ Relay("online", FALSE, "offline", 1)
    /\ UNCHANGED <<loaded, lastTs>>
    /\ UNCHANGED <<page, script, errorData, items, lastSet, socket, ui>>

\* onlineListener without its ipcRenderer.sendToHost call
onlineListenerSendOnly ==
    /\ ~onLine /\ netFlips < MaxNetFlips
    /\ onLine' = TRUE
    /\ netFlips' = netFlips + 1
    /\ sendLog' = ipcSend(sendLog, "online", TRUE, 1)
    /\ byLog' = Append(byLog, "online")
    /\ UNCHANGED hostLog
    /\ UNCHANGED <<loaded, lastTs>>
    /\ UNCHANGED <<page, script, errorData, items, lastSet, socket, ui>>

\* the browser comes back online and fires window 'online'
onlineListener ==
    /\ ~onLine /\ netFlips < MaxNetFlips
    /\ onLine' = TRUE
    /\ netFlips' = netFlips + 1
    /\ Relay("online", TRUE, "online", 1)
    /\ UNCHANGED <<loaded, lastTs>>
    /\ UNCHANGED <<page, script, errorData, items, lastSet, socket, ui>>

(***************************************************************************)
(* The pollers.                                                            *)
(***************************************************************************)
\* initTick without the navigator.onLine test of its guard
initTickOffline ==
    /\ initPoll = "run"
    /\ Relay("online", TRUE, "init", 1)
    /\ loginPoll' = "run"
    /\ initPoll' = "done"
    /\ UNCHANGED <<pollers, layers, listeners, loginRuns, setupDone, badge>>
    /\ UNCHANGED <<browser, page, errorData, items, lastSet, socket, ui>>

\* a tick of init's interval whose guard passes
initTick ==
    /\ initPoll = "run" /\ onLine
    /\ Relay("online", TRUE, "init", 1)
    /\ loginPoll' = "run"
    /\ initPoll' = "done"
    /\ UNCHANGED <<pollers, layers, listeners, loginRuns, setupDone, badge>>
    /\ UNCHANGED <<browser, page, errorData, items, lastSet, socket, ui>>

\* unreadCount counting the items created at ts as well
unreadCountInclusive(ts) ==
    Cardinality({p \in pushesAll : p.created >= ts})
        + Cardinality({t \in textsAll : t.created >= ts})

\* the number of items of pb.api.pushes.all.concat(pb.api.texts.all) created after ts
unreadCount(ts) ==
    Cardinality({p \in pushesAll : p.created > ts})
        + Cardinality({t \in textsAll : t.created > ts})

\* registerErrorProxy(); registerPushProxy(); registerTextsProxy();
\* addWebsocketEventHandlers(): each starts one more interval
startProxyPollers(p) ==
    [n \in PollerNames |-> IF n \in {"error", "pushes", "texts", "ws"} THEN p[n] + 1 ELSE p[n]]

\* loginTickDone without its clearInterval
loginTickDoneNoClear ==
    /\ loginPoll = "run" /\ active
    /\ lastTs # 0 => {"pushes", "texts"} \subseteq pbApi
    /\ loginRuns' = loginRuns + 1
    /\ badge' = IF lastTs # 0 THEN Append(badge, unreadCount(lastTs)) ELSE badge
    /\ Relay("login", TRUE, "login", 1)
    /\ pollers' = [startProxyPollers(pollers) EXCEPT !["ui"] = @ + 1]
    /\ UNCHANGED <<initPoll, loginPoll, layers, listeners, setupDone>>
    /\ UNCHANGED <<browser, page, errorData, items, lastSet, socket, ui>>

\* a tick of loginPushbulletUser's interval whose guard passes, running to the end
loginTickDone ==
    /\ loginPoll = "run" /\ active
    /\ lastTs # 0 => {"pushes", "texts"} \subseteq pbApi
    /\ loginRuns' = loginRuns + 1
    /\ badge' = IF lastTs # 0 THEN Append(badge, unreadCount(lastTs)) ELSE badge
    /\ Relay("login", TRUE, "login", 1)
    /\ pollers' = [startProxyPollers(pollers) EXCEPT !["ui"] = @ + 1]
    /\ loginPoll' = "done"
    /\ UNCHANGED <<initPoll, layers, listeners, setupDone>>
    /\ UNCHANGED <<browser, page, errorData, items, lastSet, socket, ui>>

\* the same tick when pb.api.pushes.all or pb.api.texts.all cannot be read: the
\* body throws a TypeError after starting the four pollers and before clearInterval
loginTickThrows ==
    /\ loginPoll = "run" /\ active
    /\ lastTs # 0 /\ ~({"pushes", "texts"} \subseteq pbApi)
    /\ loginRuns < MaxLoginThrows
    /\ loginRuns' = loginRuns + 1
    /\ pollers' = startProxyPollers(pollers)
    /\ UNCHANGED <<initPoll, loginPoll, layers, listeners, setupDone, badge>>
    /\ UNCHANGED <<browser, page, relay, errorData, items, lastSet, socket, ui>>

loginTick == loginTickDone \/ loginTickThrows

\* a tick of one interval of registerErrorProxy whose guard passes
registerErrorProxyTick ==
    /\ pollers["error"] > 0 /\ pbErrorDef
    /\ layers' = [layers EXCEPT !["error"] = @ + 1]
    /\ pollers' = [pollers EXCEPT !["error"] = @ - 1]
    /\ UNCHANGED <<initPoll, loginPoll, listeners, loginRuns, setupDone, badge>>
    /\ UNCHANGED <<browser, page, relay, errorData, items, lastSet, socket, ui>>

\* a tick of one interval of registerPushProxy whose guard passes
registerPushProxyTick ==
    /\ pollers["pushes"] > 0 /\ "pushes" \in pbApi
    /\ layers' = [layers EXCEPT !["pushes"] = @ + 1]
    /\ pollers' = [pollers EXCEPT !["pushes"] = @ - 1]
    /\ UNCHANGED <<initPoll, loginPoll, listeners, loginRuns, setupDone, badge>>
    /\ UNCHANGED <<browser, page, relay, errorData, items, lastSet, socket, ui>>

\* a tick of one interval of registerTextsProxy whose guard passes
registerTextsProxyTick ==
    /\ pollers["texts"] > 0 /\ "texts" \in pbApi
    /\ layers' = [layers EXCEPT !["texts"] = @ + 1]
    /\ pollers' = [pollers EXCEPT !["texts"] = @ - 1]
    /\ UNCHANGED <<initPoll, loginPoll, listeners, loginRuns, setupDone, badge>>
    /\ UNCHANGED <<browser, page, relay, errorData, items, lastSet, socket, ui>>

\* a tick of one interval of addWebsocketEventHandlers whose guard passes
addWebsocketEventHandlersTick ==
    /\ pollers["ws"] > 0 /\ pbSocket
    /\ listeners' = listeners + 1
    /\ pollers' = [pollers EXCEPT !["ws"] = @ - 1]
    /\ UNCHANGED <<initPoll, loginPoll, layers, loginRuns, setupDone, badge>>
    /\ UNCHANGED <<browser, page, relay, errorData, items, lastSet, socket, ui>>

\* a tick of addInterfaceEnhancements' interval whose guard passes
addInterfaceEnhancementsTick ==
    /\ pollers["ui"] > 0 /\ "account" \in pbApi
    /\ setupDone' = TRUE
    /\ pollers' = [pollers EXCEPT !["ui"] = @ - 1]
    /\ UNCHANGED <<initPoll, loginPoll, layers, listeners, loginRuns, badge>>
    /\ UNCHANGED <<browser, page, relay, errorData, items, lastSet, socket, ui>>

(***************************************************************************)
(* pb.error: the page assigns pb.error[property] = value.                  *)
(***************************************************************************)
\* the set trap's relay test
errorIsNetwork(property, value) ==
    property = "title" /\ isString(value) /\ includesNetwork(value)

\* the assignment runs the trap of every Proxy layer, outermost first, and the
\* innermost writes the target; without a layer it writes the target directly
errorSet(property, value) ==
    /\ errorObj' = [errorObj EXCEPT ![property] = value]
    /\ lastSet' = IF layers["error"] > 0
                     THEN [coll |-> "error", key |-> property, value |-> value,
                           threw |-> FALSE]
                     ELSE lastSet
    /\ IF errorIsNetwork(property, value)
          THEN Relay("online", FALSE, "error", layers["error"])
          ELSE UNCHANGED relay

PageSetsErrorIn(properties, values) ==
    /\ pbErrorDef /\ errorSets < MaxErrorSets
    /\ errorSets' = errorSets + 1
    /\ \E property \in properties, value \in values : errorSet(property, value)
    /\ UNCHANGED <<browser, page, script, items, socket, ui>>

\* the page reports an error: it sets the title of pb.error
PageSetsErrorTitle == PageSetsErrorIn({"title"}, {"Network error", "Failed"})

\* the page assigns any of the values to any of the properties
PageSetsError == PageSetsErrorIn(ErrorProps, ErrorValues)

(***************************************************************************)
(* pb.api.pushes.objs and pb.api.texts.objs: the page assigns              *)
(* objs[key] = value, and rebuilds its list `all` from objs when it likes. *)
(***************************************************************************)
\* appIsTargeted(targetIden): true, or undefined
appIsTargeted(targetIden) ==
    devices /\ DeviceModel(targetIden) = "pb-for-desktop"

\* "Check if push with iden exists": a scan of the page client's list
exists(all, value) == \E item \in all : item.iden = value.iden

\* the filter of the pushes set trap without its test of the direction
pushForwardedAnyDirection(value) ==
    /\ ~exists(pushesAll, value)
    /\ IF value.target # Absent THEN appIsTargeted(value.target) ELSE TRUE

\* the filter of the pushes set trap: whether it calls pbPush.enqueuePushes(value)
pushForwarded(value) ==
    /\ ~exists(pushesAll, value)
    /\ IF value.target # Absent THEN appIsTargeted(value.target) ELSE TRUE
    /\ IF value.direction # Absent THEN value.direction # "outgoing" ELSE TRUE

\* the filter of the texts set trap
textForwarded(value) ==
    /\ ~exists(textsAll, value)
    /\ IF value.hasData /\ value.target # Absent
          THEN appIsTargeted(value.target)
          ELSE TRUE

\* pb.api.pushes.objs[key] = value.  Every Proxy layer runs its trap, outermost
\* first, each before it passes the write inwards; the traps read value.iden, so
\* on null the outermost throws a TypeError and nothing is written.  Without a
\* layer the target is written directly.
pushesSet(key, value) ==
    LET n == layers["pushes"]
        throws == n > 0 /\ value = Null
    IN  /\ pushesObjs' = IF throws THEN pushesObjs
                                   ELSE [pushesObjs EXCEPT ![key] = value]
        /\ enqueued' = IF n > 0 /\ ~throws /\ pushForwarded(value)
                          THEN [enqueued EXCEPT !["pushes"][value.iden] = @ + n]
                          ELSE enqueued
        /\ lastSet' = IF n > 0
                         THEN [coll |-> "pushes", key |-> key, value |-> value,
                               threw |-> throws]
                         ELSE lastSet

\* pb.api.texts.objs[key] = value, likewise
textsSet(key, value) ==
    LET n == layers["texts"]
        throws == n > 0 /\ value = Null
    IN  /\ textsObjs' = IF throws THEN textsObjs
                                  ELSE [textsObjs EXCEPT ![key] = value]
        /\ enqueued' = IF n > 0 /\ ~throws /\ textForwarded(value)
                          THEN [enqueued EXCEPT !["texts"][value.iden] = @ + n]
                          ELSE enqueued
        /\ lastSet' = IF n > 0
                         THEN [coll |-> "texts", key |-> key, value |-> value,
                               threw |-> throws]
                         ELSE lastSet

\* the page stores a push under its iden, or null under some key
PageAssignsPush ==
    /\ "pushes" \in pbApi /\ assigns < MaxAssigns
    /\ assigns' = assigns + 1
    /\ \/ \E value \in Pushes({1}) : pushesSet(value.iden, value)
       \/ \E key \in Idens : pushesSet(key, Null)
    /\ UNCHANGED <<pushesAll, textsObjs, textsAll, devices>>
    /\ UNCHANGED <<browser, page, script, relay, errorData, socket, ui>>

PageAssignsText ==
    /\ "texts" \in pbApi /\ assigns < MaxAssigns
    /\ assigns' = assigns + 1
    /\ \/ \E value \in Texts({1}) : textsSet(value.iden, value)
       \/ \E key \in Idens : textsSet(key, Null)
    /\ UNCHANGED <<pushesObjs, pushesAll, textsAll, devices>>
    /\ UNCHANGED <<browser, page, script, relay, errorData, socket, ui>>

\* a push sent to this application's device: incoming, with its
\* target_device_iden
Incoming(iden) == [iden |-> iden, direction |-> "incoming", target |-> "desk", created |-> 1]

\* a text for this application's device
Targeted(iden) == [iden |-> iden, hasData |-> TRUE, target |-> "desk", created |-> 1]

\* the page client inserts a push that arrived for this application's device
PageInsertsPush ==
    /\ "pushes" \in pbApi /\ assigns < MaxAssigns
    /\ assigns' = assigns + 1
    /\ \E iden \in Idens : pushesSet(iden, Incoming(iden))
    /\ UNCHANGED <<pushesAll, textsObjs, textsAll, devices>>
    /\ UNCHANGED <<browser, page, script, relay, errorData, socket, ui>>

\* the page client inserts a text for this application's device
PageInsertsText ==
    /\ "texts" \in pbApi /\ assigns < MaxAssigns
    /\ assigns' = assigns + 1
    /\ \E iden \in Idens : textsSet(iden, Targeted(iden))
    /\ UNCHANGED <<pushesObjs, pushesAll, textsAll, devices>>
    /\ UNCHANGED <<browser, page, script, relay, errorData, socket, ui>>

\* the page client stores a push of the account, created at some time
PageStoresPush ==
    /\ "pushes" \in pbApi /\ assigns < MaxAssigns
    /\ assigns' = assigns + 1
    /\ \E iden \in Idens, created \in 1..MaxCreated :
          pushesSet(iden, [iden |-> iden, direction |-> Absent, target |-> Absent,
                           created |-> created])
    /\ UNCHANGED <<pushesAll, textsObjs, textsAll, devices>>
    /\ UNCHANGED <<browser, page, script, relay, errorData, socket, ui>>

\* the page client stores a text of the account, created at some time
PageStoresText ==
    /\ "texts" \in pbApi /\ assigns < MaxAssigns
    /\ assigns' = assigns + 1
    /\ \E iden \in Idens, created \in 1..MaxCreated :
          textsSet(iden, [iden |-> iden, hasData |-> FALSE, target |-> Absent,
                          created |-> created])
    /\ UNCHANGED <<pushesObjs, pushesAll, textsAll, devices>>
    /\ UNCHANGED <<browser, page, script, relay, errorData, socket, ui>>

\* the objects held by a target object
Held(objs) == {objs[k] : k \in Idens} \ {NoValue, Null}

\* the page client rebuilds pb.api.pushes.all from pb.api.pushes.objs
PageUpdatesPushesAll ==
    /\ pushesAll # Held(pushesObjs)
    /\ pushesAll' = Held(pushesObjs)
    /\ UNCHANGED <<pushesObjs, textsObjs, textsAll, devices, assigns, enqueued>>
    /\ UNCHANGED <<browser, page, script, relay, errorData, lastSet, socket, ui>>

\* the page client rebuilds pb.api.texts.all from pb.api.texts.objs
PageUpdatesTextsAll ==
    /\ textsAll # Held(textsObjs)
    /\ textsAll' = Held(textsObjs)
    /\ UNCHANGED <<pushesObjs, pushesAll, textsObjs, devices, assigns, enqueued>>
    /\ UNCHANGED <<browser, page, script, relay, errorData, lastSet, socket, ui>>

\* the page client populates pb.api.devices.objs
PageLoadsDevices ==
    /\ ~devices
    /\ devices' = TRUE
    /\ UNCHANGED <<pushesObjs, pushesAll, textsObjs, textsAll, assigns, enqueued>>
    /\ UNCHANGED <<browser, page, script, relay, errorData, lastSet, socket, ui>>

(***************************************************************************)
(* pb.ws.socket: the 'message' listener.                                   *)
(***************************************************************************)
PushTypes == {Absent, "mirror", "sms_changed", "clip", "dismissal"}

\* what pb.e2e.decrypt(ciphertext) gives: it throws, it returns text that is no
\* JSON, the text "null", or the JSON of a payload of some type
Plains == {"<throws>", "<garbage>", "<null>"} \cup PushTypes

\* ev.data: text that is no JSON, the text "null", or the JSON of an object
\* {type, push: {encrypted, ciphertext, type}}; hasPush = FALSE when the object
\* has no push property
Message(data, type, hasPush, encrypted, ptype, plain) ==
    [data |-> data, type |-> type, hasPush |-> hasPush, encrypted |-> encrypted,
     ptype |-> ptype, plain |-> plain]

Messages ==
    {Message("garbage", Absent, FALSE, FALSE, Absent, Absent),
     Message("null", Absent, FALSE, FALSE, Absent, Absent),
     Message("object", "tickle", FALSE, FALSE, Absent, Absent),
     Message("object", "push", FALSE, FALSE, Absent, Absent)}
    \cup {Message("object", "push", TRUE, FALSE, t, Absent) : t \in PushTypes}
    \cup {Message("object", "push", TRUE, TRUE, tp[1], tp[2]) : tp \in PushTypes \X Plains}

NoMessage == Message(Absent, Absent, FALSE, FALSE, Absent, Absent)

\* calls made by the listeners on one event
Calls(notified, enqueued_, clipped, uncaught, handlers, e2e) ==
    [notified |-> notified, enqueued |-> enqueued_, clipped |-> clipped,
     uncaught |-> uncaught, handlers |-> handlers, e2e |-> e2e]

NoCalls == Calls(0, 0, 0, 0, 0, FALSE)

\* the switch on message.push.type
dispatch(type, notified) ==
    CASE type \in {"mirror", "sms_changed"} -> Calls(notified, 1, 0, 0, 1, e2eEnabled)
      [] type = "clip" -> Calls(notified, 0, 1, 0, 1, e2eEnabled)
      [] OTHER -> Calls(notified, 0, 0, 0, 1, e2eEnabled)

\* onMessage with the return of the decryption catch block left out
onMessageNoReturn(ev) ==
    IF ev.data = "garbage"
    THEN Calls(0, 0, 0, 0, 1, e2eEnabled)
    ELSE IF ev.data = "null"
    THEN Calls(0, 0, 0, 1, 1, e2eEnabled)
    ELSE IF ev.type # "push"
    THEN Calls(0, 0, 0, 0, 1, e2eEnabled)
    ELSE IF ~ev.hasPush
    THEN Calls(0, 0, 0, 1, 1, e2eEnabled)
    ELSE IF ev.encrypted /\ ~e2eEnabled
    THEN dispatch(ev.ptype, 1)
    ELSE IF ev.encrypted /\ ev.plain \in {"<throws>", "<garbage>"}
    THEN dispatch(ev.ptype, 0)
    ELSE IF ev.encrypted
    THEN dispatch(IF ev.plain = "<null>" THEN Absent ELSE ev.plain, 0)
    ELSE dispatch(ev.ptype, 0)

\* onMessage with message.push left as the envelope after decryption
onMessageKeepsEnvelope(ev) ==
    IF ev.data = "garbage"
    THEN Calls(0, 0, 0, 0, 1, e2eEnabled)
    ELSE IF ev.data = "null"
    THEN Calls(0, 0, 0, 1, 1, e2eEnabled)
    ELSE IF ev.type # "push"
    THEN Calls(0, 0, 0, 0, 1, e2eEnabled)
    ELSE IF ~ev.hasPush
    THEN Calls(0, 0, 0, 1, 1, e2eEnabled)
    ELSE IF ev.encrypted /\ ~e2eEnabled
    THEN dispatch(ev.ptype, 1)
    ELSE IF ev.encrypted /\ ev.plain \in {"<throws>", "<garbage>"}
    THEN Calls(0, 0, 0, 0, 1, e2eEnabled)
    ELSE dispatch(ev.ptype, 0)

\* one run of the listener on ev
onMessage(ev) ==
    IF ev.data = "garbage"
    THEN Calls(0, 0, 0, 0, 1, e2eEnabled)            \* JSON.parse throws: caught, return
    ELSE IF ev.data = "null"
    THEN Calls(0, 0, 0, 1, 1, e2eEnabled)            \* message.type of null: TypeError
    ELSE IF ev.type # "push"
    THEN Calls(0, 0, 0, 0, 1, e2eEnabled)
    ELSE IF ~ev.hasPush
    THEN Calls(0, 0, 0, 1, 1, e2eEnabled)            \* message.push.encrypted: TypeError
    ELSE IF ev.encrypted /\ ~e2eEnabled
    THEN dispatch(ev.ptype, 1)                       \* notification, then on to the switch
    ELSE IF ev.encrypted /\ ev.plain \in {"<throws>", "<garbage>"}
    THEN Calls(0, 0, 0, 0, 1, e2eEnabled)            \* caught, return
    ELSE IF ev.encrypted
    THEN dispatch(IF ev.plain = "<null>" THEN Absent ELSE ev.plain, 0)
    ELSE dispatch(ev.ptype, 0)

\* every registered listener runs on the event
Times(calls, n) ==
    Calls(calls.notified * n, calls.enqueued * n, calls.clipped * n,
          calls.uncaught * n, n, calls.e2e)

\* the socket delivers a message
PageReceivesMessage ==
    /\ pbSocket
    /\ \E ev \in Messages :
         /\ lastMessage' = ev
         /\ wsCalls' = Times(onMessage(ev), listeners)
    /\ UNCHANGED e2eEnabled
    /\ UNCHANGED <<browser, page, script, relay, errorData, items, lastSet, ui>>

\* the user enters or removes the end-to-end encryption password
PageTogglesE2e ==
    /\ e2eEnabled' = ~e2eEnabled
    /\ UNCHANGED <<lastMessage, wsCalls>>
    /\ UNCHANGED <<browser, page, script, relay, errorData, items, lastSet, ui>>

(***************************************************************************)
(* The document: the host's 'did-navigate-in-page' message runs the two     *)
(* inject functions over the elements their selectors match.               *)
(***************************************************************************)
Elements == {"e1", "e2"}

\* the function injectAppKeyboardNavigation assigns to element.onkeyup
KeyupHandler == "click on Enter or Space"
\* the function injectMessageKeyboardNavigation assigns to element.onfocus
FocusHandler == "select contents"

\* an element as the page renders it: whether '.pointer' and
\* '.pushwrap .text-part > div' match it, whether its trimmed textContent is
\* non-empty, its tabindex attribute, style.userSelect, and the handlers that
\* run on keyup and on focus through its onkeyup / onfocus property
Rendered(pointer, message, text, tabindex, onkeyup) ==
    [pointer |-> pointer, message |-> message, text |-> text,
     tabindex |-> tabindex, userSelect |-> Absent,
     onkeyup |-> onkeyup, onfocus |-> <<>>]

\* the documents of a page: an element may carry the page's own tabindex and
\* keyup handler
Documents ==
    [Elements -> {Rendered(p, m, t, i, k) :
                     p \in BOOLEAN, m \in BOOLEAN, t \in BOOLEAN,
                     i \in {Absent, "-1"}, k \in {<<>>, <<"page">>}}]

\* a document without any of these elements: the selectors match nothing
Blank == <<>>

\* injectAppKeyboardNavigation registering its handler with addEventListener
injectAppKeyboardNavigationAddsListener(d) ==
    [e \in DOMAIN d |->
        IF d[e].pointer
        THEN [d[e] EXCEPT !.tabindex = "0", !.onkeyup = Append(@, KeyupHandler)]
        ELSE d[e]]

\* injectAppKeyboardNavigation: every '.pointer' element gets tabindex '0' and
\* the handler as its onkeyup property, which replaces what the property held
injectAppKeyboardNavigation(d) ==
    [e \in DOMAIN d |->
        IF d[e].pointer
        THEN [d[e] EXCEPT !.tabindex = "0", !.onkeyup = <<KeyupHandler>>]
        ELSE d[e]]

\* injectMessageKeyboardNavigation: every message element gets userSelect 'all'
\* and tabindex '0'; one with textual content gets the handler as its onfocus
\* property
injectMessageKeyboardNavigation(d) ==
    [e \in DOMAIN d |->
        IF d[e].message
        THEN IF ~d[e].text
             THEN [d[e] EXCEPT !.userSelect = "all", !.tabindex = "0"]
             ELSE [d[e] EXCEPT !.userSelect = "all", !.tabindex = "0",
                               !.onfocus = <<FocusHandler>>]
        ELSE d[e]]

\* the listener of ipcRenderer 'did-navigate-in-page'
didNavigateInPage ==
    /\ navigations < MaxNavigations
    /\ dom' = injectMessageKeyboardNavigation(injectAppKeyboardNavigation(dom))
    /\ navigations' = navigations + 1
    /\ UNCHANGED <<browser, page, script, relay, errorData, items, lastSet, socket>>

(***************************************************************************)
(* The life cycle of the script: page load, pollers, relays, pb.error.     *)
(***************************************************************************)
\* the state of everything but the document when the script starts
BeforeLoad ==
    /\ loaded = FALSE
    /\ onLine \in BOOLEAN
    /\ netFlips = 0
    /\ lastTs \in {0, 1}
    /\ windowPb = FALSE
    /\ active = FALSE
    /\ pbApi = {}
    /\ pbErrorDef = FALSE
    /\ pbSocket = FALSE
    /\ initPoll = "none"
    /\ loginPoll = "none"
    /\ pollers = [n \in PollerNames |-> 0]
    /\ layers = [n \in ProxyNames |-> 0]
    /\ listeners = 0
    /\ loginRuns = 0
    /\ setupDone = FALSE
    /\ badge = <<>>
    /\ sendLog = <<>>
    /\ hostLog = <<>>
    /\ byLog = <<>>
    /\ errorObj = [p \in ErrorProps |-> Absent]
    /\ errorSets = 0
    /\ pushesObjs = [k \in Idens |-> NoValue]
    /\ pushesAll = {}
    /\ textsObjs = [k \in Idens |-> NoValue]
    /\ textsAll = {}
    /\ devices = FALSE
    /\ assigns = 0
    /\ enqueued = [c \in Colls |-> [i \in Idens |-> 0]]
    /\ lastSet = NoSet
    /\ e2eEnabled = FALSE
    /\ lastMessage = NoMessage
    /\ wsCalls = NoCalls

Init ==
    /\ BeforeLoad
    /\ dom = Blank
    /\ navigations = 0

Next ==
    \/ PageDefinesPb
    \/ PageAccount
    \/ PageLoadsStores
    \/ PageDefinesError
    \/ PageOpensSocket
    \/ load
    \/ offlineListener
    \/ onlineListener
    \/ initTick
    \/ loginTick
    \/ registerErrorProxyTick
    \/ registerPushProxyTick
    \/ registerTextsProxyTick
    \/ addWebsocketEventHandlersTick
    \/ PageSetsErrorTitle

Spec == Init /\ [][Next]_vars

(***************************************************************************)
(* The intercepted collections, from the state the login tick leaves:      *)
(* online:true and login:true are relayed and n intervals of each          *)
(* register... function run (more than one when the login tick body failed *)
(* before, which takes a truthy timestamp and ends with pb.api populated). *)
(***************************************************************************)
AfterLogin ==
    /\ loaded = TRUE
    /\ onLine = TRUE
    /\ netFlips = 0
    /\ windowPb = TRUE
    /\ active = TRUE
    /\ pbErrorDef = FALSE
    /\ pbSocket = FALSE
    /\ initPoll = "done"
    /\ loginPoll = "done"
    /\ \E n \in 1..(MaxLoginThrows + 1) :
         /\ loginRuns = n
         /\ pollers = [p \in PollerNames |-> IF p = "ui" THEN 1 ELSE n]
         /\ \/ lastTs = 0 /\ n = 1 /\ pbApi = {} /\ badge = <<>>
            \/ lastTs = 1 /\ pbApi = {"pushes", "texts"} /\ badge = <<0>>
    /\ layers = [p \in ProxyNames |-> 0]
    /\ listeners = 0
    /\ setupDone = FALSE
    /\ sendLog = <<<<"online", TRUE>>, <<"login", TRUE>>>>
    /\ hostLog = <<<<"online", TRUE>>, <<"login", TRUE>>>>
    /\ byLog = <<"init", "login">>
    /\ errorObj = [p \in ErrorProps |-> Absent]
    /\ errorSets = 0
    /\ pushesObjs = [k \in Idens |-> NoValue]
    /\ pushesAll = {}
    /\ textsObjs = [k \in Idens |-> NoValue]
    /\ textsAll = {}
    /\ devices = FALSE
    /\ assigns = 0
    /\ enqueued = [c \in Colls |-> [i \in Idens |-> 0]]
    /\ lastSet = NoSet
    /\ e2eEnabled = FALSE
    /\ lastMessage = NoMessage
    /\ wsCalls = NoCalls
    /\ dom = Blank
    /\ navigations = 0

InitProxies == AfterLogin

NextProxies ==
    \/ PageLoadsApiPart
    \/ PageLoadsDevices
    \/ registerPushProxyTick
    \/ registerTextsProxyTick
    \/ PageAssignsPush
    \/ PageAssignsText
    \/ PageUpdatesPushesAll
    \/ PageUpdatesTextsAll

SpecProxies == InitProxies /\ [][NextProxies]_vars

(***************************************************************************)
(* The websocket listener, from the state the login tick leaves.           *)
(***************************************************************************)
InitSocket == AfterLogin

NextSocket ==
    \/ PageOpensSocket
    \/ addWebsocketEventHandlersTick
    \/ PageTogglesE2e
    \/ PageReceivesMessage

SpecSocket == InitSocket /\ [][NextSocket]_vars

(***************************************************************************)
(* The setup from page load on, with a page client that inserts the pushes *)
(* and texts that arrive for this application's device.                    *)
(***************************************************************************)
InitSetup == Init

NextSetup ==
    \/ PageDefinesPb
    \/ PageAccount
    \/ PageLoadsStores
    \/ PageLoadsDevices
    \/ PageDefinesError
    \/ PageOpensSocket
    \/ load
    \/ initTick
    \/ loginTick
    \/ registerErrorProxyTick
    \/ registerPushProxyTick
    \/ registerTextsProxyTick
    \/ addWebsocketEventHandlersTick
    \/ PageInsertsPush
    \/ PageInsertsText

SpecSetup == InitSetup /\ [][NextSetup]_vars

(***************************************************************************)
(* The login tick with a page client that has stored pushes and texts of   *)
(* the account, created before or after the saved timestamp, and what the  *)
(* tick does at its end: the badge, the relay, addInterfaceEnhancements.   *)
(***************************************************************************)
InitBadge == Init

NextBadge ==
    \/ PageDefinesPb
    \/ PageAccount
    \/ PageLoadsApi
    \/ load
    \/ initTick
    \/ loginTick
    \/ addInterfaceEnhancementsTick
    \/ PageStoresPush
    \/ PageStoresText
    \/ PageUpdatesPushesAll
    \/ PageUpdatesTextsAll

SpecBadge == InitBadge /\ [][NextBadge]_vars

(***************************************************************************)
(* The set traps' filters after a login tick that ran once with pb.api     *)
(* populated: one interval of each register... function, so one Proxy      *)
(* layer around each collection.                                           *)
(***************************************************************************)
InitFilter == AfterLogin /\ loginRuns = 1 /\ lastTs = 1

NextFilter ==
    \/ PageLoadsDevices
    \/ registerPushProxyTick
    \/ registerTextsProxyTick
    \/ PageAssignsPush
    \/ PageAssignsText
    \/ PageUpdatesPushesAll
    \/ PageUpdatesTextsAll

SpecFilter == InitFilter /\ [][NextFilter]_vars

(***************************************************************************)
(* pb.error after login: the page defines pb.error and assigns to its      *)
(* properties while the browser goes offline and online.                   *)
(***************************************************************************)
InitError == AfterLogin

NextError ==
    \/ PageDefinesError
    \/ registerErrorProxyTick
    \/ PageSetsError
    \/ offlineListener
    \/ onlineListener

SpecError == InitError /\ [][NextError]_vars

(***************************************************************************)
(* The document alone: any document the page may have rendered, and the    *)
(* host's navigation messages.                                             *)
(***************************************************************************)
InitUi ==
    /\ BeforeLoad
    /\ dom \in Documents
    /\ navigations = 0

NextUi == didNavigateInPage

SpecUi == InitUi /\ [][NextUi]_vars

\* timers keep firing: a tick whose guard passes is eventually taken.  The page
\* and the browser owe nothing.
Fairness ==
    /\ WF_vars(initTick)
    /\ WF_vars(loginTick)
    /\ WF_vars(registerErrorProxyTick)
    /\ WF_vars(registerPushProxyTick)
    /\ WF_vars(registerTextsProxyTick)
    /\ WF_vars(addWebsocketEventHandlersTick)

FairSpec == Init /\ [][Next]_vars /\ Fairness

(***************************************************************************)
(* Properties of the life cycle.                                           *)
(***************************************************************************)
Range(seq) == {seq[i] : i \in 1..Len(seq)}

\* the positions of the 'online' events in a relay log
OnlineAt(log) == {i \in 1..Len(log) : log[i][1] = "online"}

\* the number of events ev in a relay log
Count(log, ev) == Cardinality({i \in 1..Len(log) : log[i][1] = ev})

\* C2: the guarded body of every poller runs exactly once, on the first tick whose
\* readiness predicate holds, and never again: the login tick body is entered at
\* most once, and exactly once when its interval has been cleared.
C2_BodyRunsOnce ==
    /\ loginRuns <= 1
    /\ loginPoll = "done" => loginRuns = 1
    /\ Cardinality({i \in 1..Len(byLog) : byLog[i] = "init"})
           = (IF initPoll = "done" THEN 1 ELSE 0)

\* a span: the offline listener's relay at i and the next online listener's at j
IsSpan(i, j) ==
    /\ i < j
    /\ byLog[i] = "offline"
    /\ byLog[j] = "online"
    /\ \A k \in (i + 1)..(j - 1) : byLog[k] \notin {"offline", "online"}

Spans == {ij \in (1..Len(byLog)) \X (1..Len(byLog)) : IsSpan(ij[1], ij[2])}

\* C6 as stated: going offline and then online, exactly two 'online' events are
\* relayed on each channel over that span, online:false then online:true.
C6_ExactlyTwoOnlineEvents ==
    \A ij \in Spans :
        \A log \in {sendLog, hostLog} :
            /\ OnlineAt(log) \cap (ij[1]..ij[2]) = {ij[1], ij[2]}
            /\ log[ij[1]] = <<"online", FALSE>>
            /\ log[ij[2]] = <<"online", TRUE>>

\* C6 amended: over that span the window listeners relay online:false first and
\* online:true last on each channel; every other 'online' event of the span is an
\* online:false relayed by a set trap of pb.error.
C6_SpanFalseThenTrue ==
    \A ij \in Spans :
        \A log \in {sendLog, hostLog} :
            /\ log[ij[1]] = <<"online", FALSE>>
            /\ log[ij[2]] = <<"online", TRUE>>
            /\ \A k \in (OnlineAt(log) \cap (ij[1]..ij[2])) \ {ij[1], ij[2]} :
                   byLog[k] = "error" /\ log[k] = <<"online", FALSE>>

\* a span with a relay of the error proxy inside it
C6_Witness ==
    \E ij \in Spans : \E k \in ij[1]..ij[2] : byLog[k] = "error"

\* C7: between handlers the calls of ipcRenderer.send and of
\* ipcRenderer.sendToHost are the same events in the same order.
C7_ChannelsAgree == sendLog = hostLog

\* every kind of handler that relays has relayed
C7_Witness ==
    {"init", "login", "offline", "online", "error"} \subseteq Range(byLog)

\* a 'login' relay with a payload has been made
LoginRelayed(arg) == <<"login", arg>> \in Range(sendLog) /\ <<"login", arg>> \in Range(hostLog)

\* C8 as stated: every login transition (the account becoming active, and becoming
\* inactive afterwards) and every connectivity transition yields one relay event
\* carrying the new value on each channel.
C8_EveryTransitionRelayed ==
    /\ [][onLine' # onLine =>
            /\ sendLog' = Append(sendLog, <<"online", onLine'>>)
            /\ hostLog' = Append(hostLog, <<"online", onLine'>>)]_vars
    /\ (LoginRelayed(TRUE) /\ ~active) ~> LoginRelayed(FALSE)

\* C8 amended: every connectivity transition yields exactly one relay event with
\* the new value on each channel; 'login' is relayed only by the login tick that
\* runs to its end, with payload true, at most once on each channel; a change of
\* pb.account.active relays nothing, and login:false is never sent.
C8_TransitionsRelayedOnce ==
    [][/\ onLine' # onLine =>
            /\ sendLog' = Append(sendLog, <<"online", onLine'>>)
            /\ hostLog' = Append(hostLog, <<"online", onLine'>>)
       /\ active' # active => UNCHANGED <<sendLog, hostLog>>
       /\ \A log \in {sendLog', hostLog'} :
            /\ Count(log, "login") <= 1
            /\ <<"login", FALSE>> \notin Range(log)
       /\ Count(sendLog', "login") # Count(sendLog, "login") =>
            active /\ loginPoll = "run" /\ loginPoll' = "done"]_vars

\* the account went inactive after login:true was relayed, and the browser has
\* been through a connectivity transition
C8_Witness == LoginRelayed(TRUE) /\ ~active /\ netFlips > 0

(***************************************************************************)
(* Properties of the intercepted collections.                              *)
(***************************************************************************)
\* C1: whatever the page assigns into pb.api.pushes.objs and pb.api.texts.objs,
\* and whenever it rebuilds its `all` lists, the set traps call
\* pbPush.enqueuePushes at most once per iden.
C1_EnqueuedOncePerIden ==
    \A c \in Colls : \A i \in Idens : enqueued[c][i] <= 1

\* C9: when the set trap of an intercepted collection has finished, the target
\* holds the assigned value under the assigned key, whatever the value.
C9_TargetHoldsValue ==
    /\ lastSet.coll = "pushes" => pushesObjs[lastSet.key] = lastSet.value
    /\ lastSet.coll = "texts" => textsObjs[lastSet.key] = lastSet.value
    /\ lastSet.coll = "error" => errorObj[lastSet.key] = lastSet.value

(***************************************************************************)
(* Properties of the websocket listener.                                   *)
(***************************************************************************)
\* the last event was handled by a listener and parsed to {type: 'push', push: {...}}
PushHandled ==
    /\ wsCalls.handlers >= 1
    /\ lastMessage.data = "object"
    /\ lastMessage.type = "push"
    /\ lastMessage.hasPush

\* pb.e2e.decrypt threw, or returned text that is no JSON
DecryptFailed == lastMessage.plain \in {"<throws>", "<garbage>"}

\* C3: on a push flagged encrypted while pb.e2e.enabled is false, a notification
\* is shown and neither pbPush.enqueuePushes nor pbClipboard.receiveClip is
\* called, whatever else the push carries.
C3_EncryptedDisabledOnlyNotifies ==
    PushHandled /\ lastMessage.encrypted /\ ~wsCalls.e2e =>
        /\ wsCalls.notified >= 1
        /\ wsCalls.enqueued = 0
        /\ wsCalls.clipped = 0

\* C4: on a push flagged encrypted while pb.e2e.enabled is true, when decryption
\* throws or gives no JSON, nothing is notified and nothing is routed.
C4_DecryptFailureDrops ==
    PushHandled /\ lastMessage.encrypted /\ wsCalls.e2e /\ DecryptFailed =>
        /\ wsCalls.notified = 0
        /\ wsCalls.enqueued = 0
        /\ wsCalls.clipped = 0
        /\ wsCalls.uncaught = 0

\* such a push, whose envelope carries a type the switch would route
C4_Witness ==
    /\ PushHandled /\ lastMessage.encrypted /\ wsCalls.e2e /\ DecryptFailed
    /\ lastMessage.ptype \in {"mirror", "clip"}

\* the push reaches the switch: it is plain, or decrypted (or the envelope of an
\* encrypted one while encryption is disabled)
ReachesDispatch == PushHandled /\ ~(lastMessage.encrypted /\ wsCalls.e2e /\ DecryptFailed)

\* the type of the payload that reaches the switch: the decrypted payload's once
\* decrypted, the push's own otherwise
OwnType ==
    IF lastMessage.encrypted /\ wsCalls.e2e THEN lastMessage.plain ELSE lastMessage.ptype

\* C5: a payload that reaches dispatch is routed by its own type: 'clip' to
\* pbClipboard.receiveClip only, 'mirror' and 'sms_changed' to
\* pbPush.enqueuePushes only, anything else to neither.
C5_RoutedByOwnType ==
    ReachesDispatch =>
        /\ OwnType = "clip" =>
              wsCalls.clipped = wsCalls.handlers /\ wsCalls.enqueued = 0
        /\ OwnType \in {"mirror", "sms_changed"} =>
              wsCalls.enqueued = wsCalls.handlers /\ wsCalls.clipped = 0
        /\ OwnType \notin {"clip", "mirror", "sms_changed"} =>
              wsCalls.enqueued = 0 /\ wsCalls.clipped = 0

\* a decrypted 'clip' inside an envelope typed 'mirror' went to the clipboard
C5_Witness ==
    /\ ReachesDispatch /\ lastMessage.encrypted /\ wsCalls.e2e
    /\ lastMessage.ptype = "mirror" /\ lastMessage.plain = "clip"
    /\ wsCalls.clipped >= 1

\* the payload of the last event is malformed: no JSON, or a 'push' message
\* without a push object
Malformed ==
    /\ wsCalls.handlers >= 1
    /\ \/ lastMessage.data = "garbage"
       \/ lastMessage.data = "object" /\ lastMessage.type = "push" /\ ~lastMessage.hasPush

\* C10: on a malformed message the listener ends without an uncaught error,
\* calls no handler and shows no notification.
C10_MalformedDroppedQuietly ==
    Malformed =>
        /\ wsCalls.uncaught = 0
        /\ wsCalls.notified = 0
        /\ wsCalls.enqueued = 0
        /\ wsCalls.clipped = 0

(***************************************************************************)
(* Properties of the setup: readiness, order, connectivity.               *)
(***************************************************************************)
\* the page is ready for init: loaded, window.pb present, the browser online
InitReady == loaded /\ windowPb /\ onLine

\* the account is active and what the login body reads from pb.api is there
LoginReady ==
    /\ loginPoll # "none"
    /\ active
    /\ lastTs # 0 => {"pushes", "texts"} \subseteq pbApi

\* C11: under fair timer ticks, once the readiness conditions hold after load
\* (window.pb present, whether it was there at load or appeared later, and the
\* browser online), init eventually sends online:true and starts the login
\* polling; and once the account is active, the login tick eventually sends
\* login:true.
C11_ReadinessLeadsToRelay ==
    /\ <>[]InitReady => <>(initPoll = "done" /\ loginPoll # "none")
    /\ <>[]LoginReady => <>LoginRelayed(TRUE)

\* the login half of C11 alone
LoginReadyLeadsToRelay == <>[]LoginReady => <>LoginRelayed(TRUE)

\* the init half of C11 for a window.pb that was present at load
PbAtLoadLeadsToRelay ==
    <>[](InitReady /\ initPoll # "undef") => <>(initPoll = "done" /\ loginPoll # "none")

\* the greatest element of a non-empty set of numbers
Last(S) == CHOOSE i \in S : \A j \in S : j <= i

\* the positions of the 'online' events relayed by init or by a window listener
ListenerOnlineAt == {i \in OnlineAt(sendLog) : byLog[i] # "error"}

\* C12 as stated: once an 'online' event has been relayed, the payload of the
\* most recent one equals navigator.onLine in every state between two handlers.
C12_LastOnlineMatchesBrowser ==
    \A log \in {sendLog, hostLog} :
        OnlineAt(log) # {} => log[Last(OnlineAt(log))][2] = onLine

\* C12 amended: the payload of the most recent 'online' event relayed by init or
\* by a window listener equals navigator.onLine; an 'online' event relayed by
\* the set trap of pb.error carries false, whatever navigator.onLine is.
C12_LastListenerOnlineMatches ==
    /\ ListenerOnlineAt # {} =>
          /\ sendLog[Last(ListenerOnlineAt)] = <<"online", onLine>>
          /\ hostLog[Last(ListenerOnlineAt)] = <<"online", onLine>>
    /\ \A i \in 1..Len(byLog) :
          byLog[i] = "error" =>
              sendLog[i] = <<"online", FALSE>> /\ hostLog[i] = <<"online", FALSE>>

\* the browser is online, init has relayed online:true, and the most recent
\* 'online' event is the online:false of a 'Network' title set on pb.error
C12_Witness ==
    /\ onLine
    /\ ListenerOnlineAt # {}
    /\ byLog[Last(OnlineAt(sendLog))] = "error"
    /\ sendLog[Last(OnlineAt(sendLog))] = <<"online", FALSE>>

(***************************************************************************)
(* Properties of the document.                                             *)
(***************************************************************************)
\* C13: the two inject functions run twice (or more) over the same elements
\* leave every element as one run leaves it: a further run changes nothing, a
\* '.pointer' element has tabindex '0' and a single keyup handler, a message
\* element has tabindex '0' and, when its text is non-empty, a single focus
\* handler; no element accumulates handlers.
C13_EnhancementIdempotent ==
    /\ [][navigations >= 1 => dom' = dom]_vars
    /\ [](navigations >= 1 =>
            \A e \in Elements :
                /\ dom[e].pointer =>
                      dom[e].tabindex = "0" /\ dom[e].onkeyup = <<KeyupHandler>>
                /\ dom[e].message =>
                      dom[e].tabindex = "0" /\ dom[e].userSelect = "all"
                /\ dom[e].message /\ dom[e].text => dom[e].onfocus = <<FocusHandler>>
                /\ Len(dom[e].onkeyup) <= 1 /\ Len(dom[e].onfocus) <= 1)

\* the functions have run twice over a document with a '.pointer' element and
\* a non-empty message element
C13_Witness ==
    /\ navigations = 2
    /\ \E e \in Elements : dom[e].pointer /\ dom[e].onkeyup = <<KeyupHandler>>
    /\ \E e \in Elements : dom[e].message /\ dom[e].text /\ dom[e].onfocus = <<FocusHandler>>

(***************************************************************************)
(* Properties of the set traps' filters.                                   *)
(***************************************************************************)
\* the target names a device of this application
NamesDesktop(target) == devices /\ DeviceModel(target) = "pb-for-desktop"

\* C14: an assignment of a push into the intercepted pushes collection calls
\* pbPush.enqueuePushes exactly when no item of pb.api.pushes.all has its iden,
\* its direction is absent or not 'outgoing', and its target_device_iden is
\* absent or names a 'pb-for-desktop' device; an assignment of a text into the
\* intercepted texts collection, exactly when its iden is new in
\* pb.api.texts.all and data.target_device_iden is absent or names such a
\* device.
C14_ForwardedIff ==
    [][/\ (PageAssignsPush /\ layers["pushes"] > 0 /\ lastSet'.value # Null) =>
            LET value == lastSet'.value
            IN  enqueued' # enqueued <=>
                    /\ \A item \in pushesAll : item.iden # value.iden
                    /\ value.direction # "outgoing"
                    /\ value.target = Absent \/ NamesDesktop(value.target)
       /\ (PageAssignsText /\ layers["texts"] > 0 /\ lastSet'.value # Null) =>
            LET value == lastSet'.value
            IN  enqueued' # enqueued <=>
                    /\ \A item \in textsAll : item.iden # value.iden
                    /\ value.target = Absent \/ NamesDesktop(value.target)]_vars

\* an item targeted at this application's device went through a trap and was
\* forwarded, and a push that no trap forwarded is held by the collection
C14_Witness ==
    /\ lastSet.coll \in Colls
    /\ lastSet.value # Null
    /\ lastSet.value.target = "desk"
    /\ enqueued[lastSet.coll][lastSet.value.iden] >= 1
    /\ \E i \in Idens : enqueued["pushes"][i] = 0 /\ pushesObjs[i] \notin {NoValue, Null}

(***************************************************************************)
(* Properties of the pb.error trap.                                        *)
(***************************************************************************)
\* C15: a write to the intercepted pb.error relays online:false, once on each
\* channel, exactly when the property is 'title' and the value a string that
\* contains 'Network'; any other write relays nothing; the trap never relays
\* online:true.
C15_NetworkTitleRelaysOnce ==
    /\ [][(PageSetsError /\ layers["error"] > 0) =>
            IF lastSet'.key = "title" /\ isString(lastSet'.value)
                                      /\ includesNetwork(lastSet'.value)
            THEN /\ sendLog' = Append(sendLog, <<"online", FALSE>>)
                 /\ hostLog' = Append(hostLog, <<"online", FALSE>>)
            ELSE UNCHANGED <<sendLog, hostLog>>]_vars
    /\ [](\A i \in 1..Len(byLog) :
            byLog[i] = "error" => sendLog[i][2] = FALSE /\ hostLog[i][2] = FALSE)

\* C15 with one relay per Proxy layer in place of one
NetworkTitleRelaysPerLayer ==
    /\ [][(PageSetsError /\ layers["error"] > 0) =>
            IF lastSet'.key = "title" /\ isString(lastSet'.value)
                                      /\ includesNetwork(lastSet'.value)
            THEN /\ sendLog' = sendLog \o Repeat(<<"online", FALSE>>, layers["error"])
                 /\ hostLog' = hostLog \o Repeat(<<"online", FALSE>>, layers["error"])
            ELSE UNCHANGED <<sendLog, hostLog>>]_vars
    /\ [](\A i \in 1..Len(byLog) :
            byLog[i] = "error" => sendLog[i][2] = FALSE /\ hostLog[i][2] = FALSE)

(***************************************************************************)
(* Properties of the order of the setup.                                   *)
(***************************************************************************)
\* every 'login' event of a relay log comes after init's online:true
LoginAfterInit(log) ==
    \A i \in 1..Len(log) :
        log[i][1] = "login" =>
            \E j \in 1..(i - 1) : byLog[j] = "init" /\ log[j] = <<"online", TRUE>>

\* a Proxy layer is installed, a 'message' listener registered, or an item
\* forwarded by a set trap
SetupBegun ==
    \/ \E p \in ProxyNames : layers[p] > 0
    \/ listeners > 0
    \/ \E c \in Colls : \E i \in Idens : enqueued[c][i] > 0

\* C16: the setup steps occur in order.  No 'login' event is sent before init
\* has sent online:true, and none but by a login tick that sees the account
\* active; no Proxy layer is installed, no 'message' listener registered and no
\* item forwarded by a set trap before a login tick that saw the account active
\* has run; so while the account has never been active, no 'login' event is sent.
C16_SetupInOrder ==
    /\ [](LoginAfterInit(sendLog) /\ LoginAfterInit(hostLog))
    /\ [](SetupBegun => loginRuns >= 1)
    /\ [][/\ loginRuns' # loginRuns => active /\ initPoll = "done"
          /\ Count(sendLog', "login") # Count(sendLog, "login") =>
                active /\ loginRuns' = loginRuns + 1
          /\ Count(hostLog', "login") # Count(hostLog, "login") =>
                active /\ loginRuns' = loginRuns + 1]_vars

\* the whole setup has happened: login:true relayed, the three collections
\* wrapped, the 'message' listener registered, a push and a text forwarded
C16_Witness ==
    /\ LoginRelayed(TRUE)
    /\ \A p \in ProxyNames : layers[p] > 0
    /\ listeners > 0
    /\ \A c \in Colls : \E i \in Idens : enqueued[c][i] > 0

\* C19: every new, incoming, targeted push the page client inserts into
\* pb.api.pushes.objs after login:true has been relayed goes through the set
\* trap and is forwarded to pbPush.enqueuePushes; no such insertion happens
\* while the Proxy is not installed yet.
C19_InsertedPushForwarded ==
    [][(PageInsertsPush /\ LoginRelayed(TRUE) /\ devices) =>
          /\ layers["pushes"] > 0
          /\ \E i \in Idens : enqueued'["pushes"][i] > enqueued["pushes"][i]]_vars

\* the same, for an insertion made once the Proxy is installed
InsertedBehindProxyForwarded ==
    [][(PageInsertsPush /\ layers["pushes"] > 0 /\ devices) =>
          \E i \in Idens : enqueued'["pushes"][i] > enqueued["pushes"][i]]_vars

(***************************************************************************)
(* Properties of the badge.                                                *)
(***************************************************************************)
\* the login tick that runs to its end
LoginCompletes == loginPoll = "run" /\ loginPoll' = "done"

\* C17: the login tick calls pbPush.updateBadge only when the saved timestamp is
\* truthy, and then exactly once, with the number of items of pb.api.pushes.all
\* and pb.api.texts.all whose created is greater than the timestamp; nothing
\* else calls it, and the timestamp is never written.
C17_BadgeCountsNewerItems ==
    [][/\ LoginCompletes =>
            badge' = IF lastTs # 0
                        THEN <<Cardinality({item \in pushesAll \cup textsAll :
                                               item.created > lastTs})>>
                        ELSE <<>>
       /\ badge' # badge => LoginCompletes
       /\ lastTs' = lastTs]_vars

\* the login tick has called updateBadge with a count that leaves out an item
\* created no later than the timestamp
C17_Witness ==
    /\ loginPoll = "done"
    /\ lastTs # 0
    /\ Len(badge) = 1 /\ badge[1] >= 1
    /\ \E item \in pushesAll \cup textsAll : item.created <= lastTs

(***************************************************************************)
(* Properties of the setup when the login tick body fails partway.         *)
(***************************************************************************)
\* C18: in every execution, those included in which the account is active before
\* pb.api is populated and the login tick body fails partway, each intercepted
\* collection is wrapped by at most one Proxy layer, at most one 'message'
\* listener is registered on the socket, and login:true is relayed at most once.
C18_SetupAtMostOnce ==
    /\ \A p \in ProxyNames : layers[p] <= 1
    /\ listeners <= 1
    /\ Count(sendLog, "login") <= 1
    /\ Count(hostLog, "login") <= 1

\* the part of C18 about the relay alone
LoginRelayedAtMostOnce ==
    Count(sendLog, "login") <= 1 /\ Count(hostLog, "login") <= 1

====
